---- MODULE Spec2Model ----
(***************************************************************************)
(* A model of src/PerformanceCounters.js: the PerformanceCounters engine   *)
(* (setLatency, onQuery, onResult, onError, clear, the read accessors)     *)
(* and the promise-mysql adapter onMySQLPromiseConnection.                 *)
(***************************************************************************)
EXTENDS Integers, Sequences, FiniteSets, TLC

(***************************************************************************)
(* Bounds of the model.                                                    *)
(***************************************************************************)
\* onQuery() is offered while the gauge is below this value.
MaxRunning == 2
\* Completion hooks (onResult/onError) offered between two clear() calls.
MaxCompletions == 2
\* successCount of the record a long-running engine starts SpecLongRun with.
LongRunCount == 3999999
\* Times onMySQLPromiseConnection is offered on the connection.
MaxAttach == 2
\* Sequences enqueued on the connection.
MaxSequences == 1
\* The clock advances while it is below this value.
MaxClock == 50
\* Concurrent async call chains of the application.
MaxChains == 2

(***************************************************************************)
(* Inputs.                                                                 *)
(***************************************************************************)
\* Raw query texts, as token sequences.
QTable1 == <<"SELECT", "1", "FROM", "table">>
QTable2 == <<"SELECT", "2", "FROM", "table">>
QAnother1 == <<"SELECT", "1", "FROM", "another_table">>
RawQueries == {QTable1, QTable2, QAnother1}
\* Tokens that are number constants.
NumberLiterals == {"1", "2"}
\* Values passed to setLatency.
LatencyValues == {50, 80}
\* Durations passed to the completion hooks.
Durations == {53, 100}
\* <<nFetchedRows, nAffectedRows, nChangedRows>> passed to onResult.
RowArgs == {<<3, 0, 0>>, <<0, 1, 1>>}

VARIABLES
    mapQueryToMetrics,          \* this._mapQueryToMetrics: canonical key -> metrics record
    nCurrentlyRunningQueries,   \* this._nCurrentlyRunningQueries
    nLatencyMilliseconds,       \* this._nLatencyMilliseconds: <<>> is null, <<n>> is the number n
    lastCall,                   \* history: the last method called, and the gauge it was called on
    ledger,                     \* history: per raw query, the completion calls since the last clear()
    latencySamples,             \* history: values passed to setLatency since the first set / last reset
    nScenarioStep,              \* history: how far the calls since construction follow tests.js (-1: not)
    nBudget,                    \* direct completion hook calls still offered before the next clear()
    connection,                 \* the driver's connection object: <<>> before it exists
    sequences,                  \* the sequences enqueued on the connection, in order
    now,                        \* new Date().getTime()
    returned,                   \* the object a metricsAsObject read returned to its caller: <<>> before
    chains                      \* the async call chains of the application that call the hooks

engineVars == <<mapQueryToMetrics, nCurrentlyRunningQueries, nLatencyMilliseconds>>

historyVars == <<lastCall, ledger, latencySamples, nScenarioStep, nBudget>>

driverVars == <<connection, sequences, now>>

callerVars == <<returned, chains>>

vars == <<mapQueryToMetrics, nCurrentlyRunningQueries, nLatencyMilliseconds,
          lastCall, ledger, latencySamples, nScenarioStep, nBudget,
          connection, sequences, now, returned, chains>>

(***************************************************************************)
(* JavaScript primitives used by the code.                                 *)
(***************************************************************************)
Null == <<>>

Max2(a, b) == IF a >= b THEN a ELSE b

Min2(a, b) == IF a <= b THEN a ELSE b

\* ToNumber of the latency field in `nDurationMilliseconds - this._nLatencyMilliseconds`:
\* null coerces to 0.
ToNumber(v) == IF v = Null THEN 0 ELSE v[1]

\* First significant digit of the decimal expansion of p/q, for 0 < p < q.
RECURSIVE LeadingDigit(_, _)
LeadingDigit(p, q) == IF p >= q THEN p \div q ELSE LeadingDigit(p * 10, q)

\* parseInt(p / q) for integers p >= 0, q > 0.  parseInt converts the number to
\* a string and reads the leading run of digits.  Number-to-string is decimal
\* notation for 1e-6 <= x < 1e21, so the digits before the point are floor(x);
\* below 1e-6 it is exponent notation ("7.5e-7"), whose leading run of digits
\* is the first significant digit.  (x >= 1e21 is outside the model's integers.)
ParseIntNonNeg(p, q) ==
    IF p = 0 THEN 0
    ELSE IF p * 1000000 >= q THEN p \div q
    ELSE LeadingDigit(p, q)

\* parseInt(p / q) for any integer p and q > 0: the sign is read first.
ParseIntQuotient(p, q) ==
    IF p >= 0 THEN ParseIntNonNeg(p, q) ELSE 0 - ParseIntNonNeg(0 - p, q)

\* parseInt(n) for an integer argument.
ParseInt(n) == ParseIntQuotient(n, 1)

\* unparametrize_sql_query(strQuery, {bReduceEnumsToOneElement: true}):
\* number constants are replaced by "?".
unparametrize_sql_query(strQuery) ==
    [i \in DOMAIN strQuery |->
        IF strQuery[i] \in NumberLiterals THEN "?" ELSE strQuery[i]]

CanonicalKeys == {unparametrize_sql_query(q) : q \in RawQueries}

(***************************************************************************)
(* The engine, as functions on the engine state                            *)
(* [map, running, latency].                                                *)
(***************************************************************************)
Engine == [map |-> mapQueryToMetrics,
           running |-> nCurrentlyRunningQueries,
           latency |-> nLatencyMilliseconds]

\* The object literal of _queryMappings.
NewMetrics == [successCount |-> 0, errorCount |-> 0,
               successMillisecondsTotal |-> 0, errorMillisecondsTotal |-> 0,
               successMillisecondsAverage |-> 0, errorMillisecondsAverage |-> 0,
               fetchedRows |-> 0, affectedRows |-> 0, changedRows |-> 0]

\* _queryMappings(strQuery): the map after get-or-create of strQuery.
queryMappings(map, strQuery) ==
    IF strQuery \in DOMAIN map THEN map ELSE map @@ (strQuery :> NewMetrics)

\* Math.max(0, nDurationMilliseconds - this._nLatencyMilliseconds) without the floor.
AdjustedDurationNoFloor(nDurationMilliseconds, latency) ==
    nDurationMilliseconds - ToNumber(latency)

\* Math.max(0, nDurationMilliseconds - this._nLatencyMilliseconds)
AdjustedDuration(nDurationMilliseconds, latency) ==
    Max2(0, nDurationMilliseconds - ToNumber(latency))

\* A completion hook that leaves the gauge as it is.
DecrementRunningForgotten(n) == n

\* this._nCurrentlyRunningQueries - 1, without the floor.
DecrementRunningNoFloor(n) == n - 1

\* Math.max(0, this._nCurrentlyRunningQueries - 1)
DecrementRunning(n) == Max2(0, n - 1)

\* A completion hook that keys the record by the raw text.
CompletionKeyRaw(strQuery) == strQuery

\* strQuery = unparametrize_sql_query(strQuery, ...) in onResult and onError.
CompletionKey(strQuery) == unparametrize_sql_query(strQuery)

\* setLatency that always overwrites.
NextLatencyOverwrite(latency, nMilliseconds, bReset) == <<nMilliseconds>>

\* setLatency(nMilliseconds, bReset): the new value of _nLatencyMilliseconds.
NextLatency(latency, nMilliseconds, bReset) ==
    IF latency = Null \/ bReset
    THEN <<nMilliseconds>>
    ELSE <<Min2(latency[1], nMilliseconds)>>

\* setLatency whose reset also empties the store.
setLatencyOnResetClears(e, nMilliseconds, bReset) ==
    [e EXCEPT !.latency = NextLatency(e.latency, nMilliseconds, bReset),
              !.map = IF bReset THEN <<>> ELSE @]

setLatencyOn(e, nMilliseconds, bReset) ==
    [e EXCEPT !.latency = NextLatency(e.latency, nMilliseconds, bReset)]

onQueryOn(e) == [e EXCEPT !.running = @ + 1]

\* A success update that stores the row numbers of the call instead of adding them.
SuccessUpdateRowsAssigned(r, nAdjusted, nFetchedRows, nAffectedRows, nChangedRows) ==
    LET r1 == [r EXCEPT !.successCount = @ + 1,
                        !.successMillisecondsTotal = @ + nAdjusted]
    IN [r1 EXCEPT !.successMillisecondsAverage =
                      ParseIntQuotient(r1.successMillisecondsTotal, r1.successCount),
                  !.fetchedRows = ParseInt(nFetchedRows),
                  !.affectedRows = ParseInt(nAffectedRows),
                  !.changedRows = ParseInt(nChangedRows)]

\* The success fields of a record after one more success.
SuccessUpdate(r, nAdjusted, nFetchedRows, nAffectedRows, nChangedRows) ==
    LET r1 == [r EXCEPT !.successCount = @ + 1,
                        !.successMillisecondsTotal = @ + nAdjusted]
    IN [r1 EXCEPT !.successMillisecondsAverage =
                      ParseIntQuotient(r1.successMillisecondsTotal, r1.successCount),
                  !.fetchedRows = @ + ParseInt(nFetchedRows),
                  !.affectedRows = @ + ParseInt(nAffectedRows),
                  !.changedRows = @ + ParseInt(nChangedRows)]

\* An error update copied from the success update, the count left unrenamed.
ErrorUpdateCountsSuccess(r, nAdjusted) ==
    LET r1 == [r EXCEPT !.successCount = @ + 1,
                        !.errorMillisecondsTotal = @ + nAdjusted]
    IN [r1 EXCEPT !.errorMillisecondsAverage =
                      ParseIntQuotient(r1.errorMillisecondsTotal, r1.successCount)]

\* An error update that recomputes the average before adding the duration.
ErrorUpdateStaleAverage(r, nAdjusted) ==
    LET r1 == [r EXCEPT !.errorCount = @ + 1]
    IN [r1 EXCEPT !.errorMillisecondsAverage =
                      ParseIntQuotient(r1.errorMillisecondsTotal, r1.errorCount),
                  !.errorMillisecondsTotal = @ + nAdjusted]

\* The error fields of a record after one more error.
ErrorUpdate(r, nAdjusted) ==
    LET r1 == [r EXCEPT !.errorCount = @ + 1,
                        !.errorMillisecondsTotal = @ + nAdjusted]
    IN [r1 EXCEPT !.errorMillisecondsAverage =
                      ParseIntQuotient(r1.errorMillisecondsTotal, r1.errorCount)]

\* onResult that ignores a completion no onQuery announced.
onResultOnIgnoreUnmatched(e, strQuery, nDurationMilliseconds, nFetchedRows, nAffectedRows, nChangedRows) ==
    LET nAdjusted == AdjustedDuration(nDurationMilliseconds, e.latency)
        strKey == CompletionKey(strQuery)
        map == queryMappings(e.map, strKey)
    IN IF e.running = 0 THEN e
       ELSE [e EXCEPT !.running = DecrementRunning(@),
                      !.map = [map EXCEPT ![strKey] =
                          SuccessUpdate(@, nAdjusted, nFetchedRows, nAffectedRows, nChangedRows)]]

onResultOn(e, strQuery, nDurationMilliseconds, nFetchedRows, nAffectedRows, nChangedRows) ==
    LET nAdjusted == AdjustedDuration(nDurationMilliseconds, e.latency)
        strKey == CompletionKey(strQuery)
        map == queryMappings(e.map, strKey)
    IN [e EXCEPT !.running = DecrementRunning(@),
                 !.map = [map EXCEPT ![strKey] =
                     SuccessUpdate(@, nAdjusted, nFetchedRows, nAffectedRows, nChangedRows)]]

\* onError that records the duration as measured, the latency not subtracted.
onErrorOnUnadjusted(e, strQuery, nDurationMilliseconds) ==
    LET strKey == CompletionKey(strQuery)
        map == queryMappings(e.map, strKey)
    IN [e EXCEPT !.running = DecrementRunning(@),
                 !.map = [map EXCEPT ![strKey] = ErrorUpdate(@, nDurationMilliseconds)]]

onErrorOn(e, strQuery, nDurationMilliseconds) ==
    LET nAdjusted == AdjustedDuration(nDurationMilliseconds, e.latency)
        strKey == CompletionKey(strQuery)
        map == queryMappings(e.map, strKey)
    IN [e EXCEPT !.running = DecrementRunning(@),
                 !.map = [map EXCEPT ![strKey] = ErrorUpdate(@, nAdjusted)]]

\* clear() that also forgets the running queries.
clearGaugeOn(e) == [e EXCEPT !.map = <<>>, !.running = 0]

\* clear() that also resets the gauge and the latency.
clearAllOn(e) == [map |-> <<>>, running |-> 0, latency |-> Null]

\* clear() that zeroes the records and keeps their keys.
clearCountersOn(e) == [e EXCEPT !.map = [k \in DOMAIN @ |-> NewMetrics]]

\* this._mapQueryToMetrics.clear()
clearOn(e) == [e EXCEPT !.map = <<>>]

\* The read accessors.
metrics == mapQueryToMetrics

metricsAsObject == [strQuery \in DOMAIN mapQueryToMetrics |-> mapQueryToMetrics[strQuery]]

runningQueriesCount == nCurrentlyRunningQueries

\* The object metricsAsObject returns: one property per key of the store,
\* holding the record object of the store itself (objMetrics[strQuery] =
\* this._mapQueryToMetrics.get(strQuery)). A property is a reference: bStored
\* tells that the record object is still the one the store holds under that
\* key, and record is the object's contents once the store has dropped it.
\* atCall keeps the contents the object had when it was returned.
metricsAsObjectReturned ==
    [properties |-> [strQuery \in DOMAIN mapQueryToMetrics |-> [bStored |-> TRUE, record |-> Null]],
     atCall |-> metricsAsObject]

\* The contents of the record a property refers to.
Deref(property, strQuery) ==
    IF property.bStored THEN mapQueryToMetrics[strQuery] ELSE property.record

\* The returned object as its holder reads it.
ReadReturned(obj) == [strQuery \in DOMAIN obj.properties |-> Deref(obj.properties[strQuery], strQuery)]

\* this._mapQueryToMetrics.clear(): the store drops its record objects; the
\* returned object keeps the ones it refers to.
Detached(ret, map) ==
    IF ret = Null THEN Null
    ELSE <<[ret[1] EXCEPT !.properties =
               [strQuery \in DOMAIN @ |->
                   IF @[strQuery].bStored
                   THEN [bStored |-> FALSE, record |-> map[strQuery]]
                   ELSE @[strQuery]]]>>

(***************************************************************************)
(* History bookkeeping.                                                    *)
(***************************************************************************)
\* The duration a completion hook is to record: max(0, d - L), L being the
\* latency at the call, 0 when none was ever set.
RecordedDuration(d, latency) ==
    LET L == IF latency = Null THEN 0 ELSE latency[1]
    IN IF d - L > 0 THEN d - L ELSE 0

\* A call of method op on an engine whose gauge was running.
Called(op, running) == [op |-> op, running |-> running]

EmptyLedger == [q \in RawQueries |-> [ok |-> 0, err |-> 0, okMs |-> 0, errMs |-> 0]]

\* The calls of tests.js, in order.
Script == <<
    [op |-> "setLatency", ms |-> 50, reset |-> FALSE],
    [op |-> "onQuery"],
    [op |-> "onQuery"],
    [op |-> "onResult", q |-> QTable1, d |-> 100, rows |-> <<3, 0, 0>>],
    [op |-> "onError", q |-> QAnother1, d |-> 53] >>

\* The scenario position after a call.
ScenarioAfter(call) ==
    IF nScenarioStep >= 0 /\ nScenarioStep < Len(Script) /\ Script[nScenarioStep + 1] = call
    THEN nScenarioStep + 1
    ELSE -1

SetEngine(e) ==
    /\ mapQueryToMetrics' = e.map
    /\ nCurrentlyRunningQueries' = e.running
    /\ nLatencyMilliseconds' = e.latency

(***************************************************************************)
(* Calls of the engine's methods.                                          *)
(***************************************************************************)
setLatency(nMilliseconds, bReset) ==
    /\ SetEngine(setLatencyOn(Engine, nMilliseconds, bReset))
    /\ lastCall' = Called("setLatency", nCurrentlyRunningQueries)
    /\ latencySamples' = IF nLatencyMilliseconds = Null \/ bReset
                         THEN {nMilliseconds}
                         ELSE latencySamples \cup {nMilliseconds}
    /\ nScenarioStep' = ScenarioAfter([op |-> "setLatency", ms |-> nMilliseconds, reset |-> bReset])
    /\ UNCHANGED <<ledger, nBudget>>
    /\ UNCHANGED <<driverVars, callerVars>>

onQuery ==
    /\ nCurrentlyRunningQueries < MaxRunning
    /\ SetEngine(onQueryOn(Engine))
    /\ lastCall' = Called("onQuery", nCurrentlyRunningQueries)
    /\ nScenarioStep' = ScenarioAfter([op |-> "onQuery"])
    /\ UNCHANGED <<ledger, latencySamples, nBudget>>
    /\ UNCHANGED <<driverVars, callerVars>>

onResult(strQuery, nDurationMilliseconds, rows) ==
    /\ nBudget > 0
    /\ SetEngine(onResultOn(Engine, strQuery, nDurationMilliseconds, rows[1], rows[2], rows[3]))
    /\ lastCall' = Called("onResult", nCurrentlyRunningQueries)
    /\ ledger' = [ledger EXCEPT ![strQuery].ok = @ + 1,
                                ![strQuery].okMs = @ + RecordedDuration(nDurationMilliseconds, nLatencyMilliseconds)]
    /\ nScenarioStep' = ScenarioAfter([op |-> "onResult", q |-> strQuery,
                                       d |-> nDurationMilliseconds, rows |-> rows])
    /\ nBudget' = nBudget - 1
    /\ UNCHANGED latencySamples
    /\ UNCHANGED <<driverVars, callerVars>>

onError(strQuery, nDurationMilliseconds) ==
    /\ nBudget > 0
    /\ SetEngine(onErrorOn(Engine, strQuery, nDurationMilliseconds))
    /\ lastCall' = Called("onError", nCurrentlyRunningQueries)
    /\ ledger' = [ledger EXCEPT ![strQuery].err = @ + 1,
                                ![strQuery].errMs = @ + RecordedDuration(nDurationMilliseconds, nLatencyMilliseconds)]
    /\ nScenarioStep' = ScenarioAfter([op |-> "onError", q |-> strQuery, d |-> nDurationMilliseconds])
    /\ nBudget' = nBudget - 1
    /\ UNCHANGED latencySamples
    /\ UNCHANGED <<driverVars, callerVars>>

clear ==
    /\ SetEngine(clearOn(Engine))
    /\ lastCall' = Called("clear", nCurrentlyRunningQueries)
    /\ ledger' = EmptyLedger
    /\ nScenarioStep' = -1
    /\ nBudget' = MaxCompletions
    /\ UNCHANGED latencySamples
    /\ returned' = Detached(returned, mapQueryToMetrics)
    /\ UNCHANGED <<driverVars, chains>>

CallSetLatency == \E nMilliseconds \in LatencyValues, bReset \in BOOLEAN :
                      setLatency(nMilliseconds, bReset)

CallOnQuery == onQuery

CallOnResult == \E strQuery \in RawQueries, d \in Durations, rows \in RowArgs :
                    onResult(strQuery, d, rows)

CallOnError == \E strQuery \in RawQueries, d \in Durations : onError(strQuery, d)

CallClear == clear

\* The application reads metricsAsObject and keeps the object.
CallMetricsAsObject ==
    /\ returned = Null
    /\ returned' = <<metricsAsObjectReturned>>
    /\ lastCall' = Called("metricsAsObject", nCurrentlyRunningQueries)
    /\ nScenarioStep' = -1
    /\ UNCHANGED <<engineVars, ledger, latencySamples, nBudget, driverVars, chains>>

(***************************************************************************)
(* The promise-mysql driver and onMySQLPromiseConnection.                  *)
(***************************************************************************)
\* Constructor names onMySQLPromiseConnection accepts.
ConnectionTypes == {"Connection", "PoolConnection"}
\* The constructor names of the objects the driver hands out: the two
\* connection classes and the pool.
ObjectTypes == ConnectionTypes \cup {"Pool"}
\* The sequences the driver enqueues: sequence.constructor.name and, for a
\* Query, sequence.sql.
NoSql == <<>>
SequenceKinds == {<<"Query", QTable1>>, <<"Query", QAnother1>>, <<"Ping", NoSql>>}
\* sequence._results[0] when the sequence emits 'end' or 'error'.
NoResults == [kind |-> "undefined", length |-> 0, affectedRows |-> 0, changedRows |-> 0]
ResultShapes == {NoResults,
                 [kind |-> "Array", length |-> 3, affectedRows |-> 0, changedRows |-> 0],
                 [kind |-> "OkPacket", length |-> 0, affectedRows |-> 1, changedRows |-> 1]}

\* The time that passes in one tick of the clock.
TickDurations == {53}

\* The listeners registered on a sequence by one run of the enqueue listener:
\* <<event, function>>.
RegisteredListeners == {<<"fields", "fnSaveDuration">>, <<"error", "fnSaveDuration">>,
                        <<"error", "fnOnEnd">>, <<"error", "fnOnError">>,
                        <<"end", "fnOnEnd">>}

\* The listeners fnOnEnd removes.
RemovedListeners == {<<"fields", "fnSaveDuration">>, <<"error", "fnOnError">>,
                     <<"error", "fnOnEnd">>, <<"end", "fnOnEnd">>}

\* The variables one run of the enqueue listener closes over.
NewClosure(t) == [nStartUnixTimeMilliseconds |-> t,
                  nDurationMilliseconds |-> 0,
                  error |-> FALSE,
                  bHandled |-> FALSE,
                  listeners |-> RegisteredListeners]

\* fnSaveDuration at time t.
fnSaveDuration(c, t) ==
    IF c.nDurationMilliseconds = 0
    THEN [c EXCEPT !.nDurationMilliseconds = t - c.nStartUnixTimeMilliseconds]
    ELSE c

\* fnOnError at time t.
fnOnError(c, t) == [fnSaveDuration(c, t) EXCEPT !.error = TRUE]

\* The row counts fnOnEnd reads from sequence._results[0].
RowsOf(results) ==
    IF results.kind = "undefined" THEN <<0, 0, 0>>
    ELSE IF results.length > 0 THEN <<results.length, 0, 0>>
    ELSE IF results.kind = "OkPacket" THEN <<0, results.affectedRows, results.changedRows>>
    ELSE <<0, 0, 0>>

\* A step of a handler: the closure, the engine and the hook calls made so far.
Step(c, e, calls) == [c |-> c, e |-> e, calls |-> calls]

\* fnOnEnd at time t, on closure st.c and engine st.e.
fnOnEnd(st, sql, results, t) ==
    IF st.c.bHandled
    THEN st
    ELSE LET c1 == [st.c EXCEPT !.bHandled = TRUE, !.listeners = @ \ RemovedListeners]
             c2 == fnSaveDuration(c1, t)
             rows == RowsOf(results)
         IN IF c1.error
            THEN Step(c2,
                      onErrorOn(st.e, sql, c2.nDurationMilliseconds),
                      Append(st.calls, [op |-> "onError", q |-> sql,
                                        d |-> c2.nDurationMilliseconds,
                                        latency |-> st.e.latency,
                                        running |-> st.e.running]))
            ELSE Step(c2,
                      onResultOn(st.e, sql, c2.nDurationMilliseconds, rows[1], rows[2], rows[3]),
                      Append(st.calls, [op |-> "onResult", q |-> sql,
                                        d |-> c2.nDurationMilliseconds,
                                        latency |-> st.e.latency,
                                        running |-> st.e.running]))

\* The listeners of one closure for `event`, called in the order they were
\* registered; emit() calls the listeners registered when it started, so one
\* removed by an earlier listener of the same emit is still called.
CallListeners(event, st, sql, results, t) ==
    LET had == st.c.listeners
        s1 == IF <<event, "fnSaveDuration">> \in had
              THEN Step(fnSaveDuration(st.c, t), st.e, st.calls) ELSE st
        s2 == IF <<event, "fnOnEnd">> \in had
              THEN fnOnEnd(s1, sql, results, t) ELSE s1
        s3 == IF <<event, "fnOnError">> \in had
              THEN Step(fnOnError(s2.c, t), s2.e, s2.calls) ELSE s2
    IN s3

\* sequence.emit(event): closures[1..i] handled, in order, starting from engine e.
RECURSIVE Emit(_, _, _, _, _, _, _)
Emit(event, closures, i, e, sql, results, t) ==
    IF i = 0
    THEN [closures |-> closures, e |-> e, calls |-> <<>>]
    ELSE LET before == Emit(event, closures, i - 1, e, sql, results, t)
             st == CallListeners(event, Step(before.closures[i], before.e, before.calls),
                                 sql, results, t)
         IN [closures |-> [before.closures EXCEPT ![i] = st.c],
             e |-> st.e,
             calls |-> st.calls]

\* The engine after n calls of onQuery().
RECURSIVE onQueryTimes(_, _)
onQueryTimes(e, n) == IF n = 0 THEN e ELSE onQueryOn(onQueryTimes(e, n - 1))

\* The ledger after the completion hook calls of one emit.
RECURSIVE LedgerAfter(_, _, _)
LedgerAfter(l, calls, i) ==
    IF i = 0 THEN l
    ELSE LET l1 == LedgerAfter(l, calls, i - 1)
             call == calls[i]
             ms == RecordedDuration(call.d, call.latency)
         IN IF call.op = "onResult"
            THEN [l1 EXCEPT ![call.q].ok = @ + 1, ![call.q].okMs = @ + ms]
            ELSE [l1 EXCEPT ![call.q].err = @ + 1, ![call.q].errMs = @ + ms]

CountCalls(calls, op) == Cardinality({i \in DOMAIN calls : calls[i].op = op})

\* connection.on("enqueue", ...): one more listener.
AttachListener(n) == n + 1

\* The driver creates the connection object.
CreateConnection(strType) ==
    /\ connection = Null
    /\ connection' = <<[constructorName |-> strType, nEnqueueListeners |-> 0]>>
    /\ UNCHANGED <<engineVars, historyVars, sequences, now, callerVars>>

\* assert(connection && connection.constructor && [...].includes(name)), with
\* a presence test alone.
AssertPassesWhenPresent(arg) == arg # Null

\* assert(connection && connection.constructor
\*        && ["Connection", "PoolConnection"].includes(connection.constructor.name)).
AssertPasses(arg) == arg # Null /\ arg[1].constructorName \in ConnectionTypes

\* onMySQLPromiseConnection(connection) with the object the driver created.
onMySQLPromiseConnection ==
    /\ connection # Null
    /\ connection[1].nEnqueueListeners < MaxAttach
    /\ AssertPasses(connection)
    /\ connection' = <<[connection[1] EXCEPT !.nEnqueueListeners = AttachListener(@)]>>
    /\ lastCall' = Called("onMySQLPromiseConnection", nCurrentlyRunningQueries)
    /\ nScenarioStep' = -1
    /\ UNCHANGED <<engineVars, ledger, latencySamples, nBudget, sequences, now, callerVars>>

\* onMySQLPromiseConnection(arg) where the assertion fails: AssertionError is
\* thrown before anything else is done.
onMySQLPromiseConnectionThrows(arg) ==
    /\ ~AssertPasses(arg)
    /\ lastCall' = Called("AssertionError", nCurrentlyRunningQueries)
    /\ nScenarioStep' = -1
    /\ UNCHANGED <<engineVars, ledger, latencySamples, nBudget, driverVars, callerVars>>

\* An enqueue listener that instruments every sequence.
IsQueryAnySequence(strType) == TRUE

\* if(sequence.constructor.name === "Query")
IsQuery(strType) == strType = "Query"

\* The connection enqueues a sequence: every "enqueue" listener runs.
Enqueue(strType, sql) ==
    /\ connection # Null
    /\ Len(sequences) < MaxSequences
    /\ LET n == IF IsQuery(strType) THEN connection[1].nEnqueueListeners ELSE 0
       IN /\ SetEngine(onQueryTimes(Engine, n))
          /\ sequences' = Append(sequences,
                 [type |-> strType, sql |-> sql,
                  closures |-> [i \in 1..n |-> NewClosure(now)],
                  nAttachedAtEnqueue |-> connection[1].nEnqueueListeners,
                  bErrorEmitted |-> FALSE, bEndEmitted |-> FALSE,
                  nOnQuery |-> n, nOnResult |-> 0, nOnError |-> 0])
          /\ nScenarioStep' = IF n = 0 THEN nScenarioStep ELSE -1
    /\ lastCall' = IF IsQuery(strType) /\ connection[1].nEnqueueListeners > 0
                   THEN Called("onQuery", nCurrentlyRunningQueries
                                              + connection[1].nEnqueueListeners - 1)
                   ELSE lastCall
    /\ UNCHANGED <<ledger, latencySamples, nBudget, connection, now, callerVars>>

\* Sequence s emits `event`, with sequence._results[0] = results.
EmitEvent(s, event, results) ==
    /\ s \in DOMAIN sequences
    /\ LET sq == sequences[s]
           after == Emit(event, sq.closures, Len(sq.closures), Engine, sq.sql, results, now)
       IN /\ SetEngine(after.e)
          /\ sequences' = [sequences EXCEPT ![s] =
                 [sq EXCEPT !.closures = after.closures,
                            !.bErrorEmitted = @ \/ event = "error",
                            !.bEndEmitted = @ \/ event = "end",
                            !.nOnResult = @ + CountCalls(after.calls, "onResult"),
                            !.nOnError = @ + CountCalls(after.calls, "onError")]]
          /\ ledger' = LedgerAfter(ledger, after.calls, Len(after.calls))
          /\ nScenarioStep' = IF after.calls = <<>> THEN nScenarioStep ELSE -1
          /\ lastCall' = IF after.calls = <<>> THEN lastCall
                         ELSE Called(after.calls[Len(after.calls)].op,
                                     after.calls[Len(after.calls)].running)
    /\ UNCHANGED <<latencySamples, nBudget, connection, now, callerVars>>

EmitFields == \E s \in 1..MaxSequences : EmitEvent(s, "fields", NoResults)

\* A sequence that fails has received no result set.
EmitError == \E s \in 1..MaxSequences : EmitEvent(s, "error", NoResults)

EmitEnd == \E s \in 1..MaxSequences, results \in ResultShapes : EmitEvent(s, "end", results)

DriverCreatesConnection == \E strType \in ConnectionTypes : CreateConnection(strType)

CallOnMySQLPromiseConnection == onMySQLPromiseConnection

\* The driver creates a connection or a pool.
DriverCreatesObject == \E strType \in ObjectTypes : CreateConnection(strType)

\* The arguments of onMySQLPromiseConnection: undefined, or the driver's object.
AttachArguments == {Null, connection}

\* The application calls onMySQLPromiseConnection with any of these.
CallOnMySQLPromiseConnectionWith ==
    \/ onMySQLPromiseConnection
    \/ \E arg \in AttachArguments : onMySQLPromiseConnectionThrows(arg)

DriverEnqueues == \E kind \in SequenceKinds : Enqueue(kind[1], kind[2])

\* Time passes.
Tick ==
    /\ now < MaxClock
    /\ \E d \in TickDurations : now' = now + d
    /\ UNCHANGED <<engineVars, historyVars, connection, sequences, callerVars>>

\* The state after the constructor.
Init ==
    /\ mapQueryToMetrics = <<>>
    /\ nCurrentlyRunningQueries = 0
    /\ nLatencyMilliseconds = Null
    /\ lastCall = Called("constructor", 0)
    /\ ledger = EmptyLedger
    /\ latencySamples = {}
    /\ nScenarioStep = 0
    /\ nBudget = MaxCompletions
    /\ connection = Null
    /\ sequences = <<>>
    /\ now = 0
    /\ returned = Null
    /\ chains = <<>>

Next ==
    \/ CallSetLatency
    \/ CallOnQuery
    \/ CallOnResult
    \/ CallOnError
    \/ CallClear

Spec == Init /\ [][Next]_vars

\* The engine driven by the adapter on a promise-mysql connection; the
\* application calibrates and clears.
NextAdapter ==
    \/ DriverCreatesConnection
    \/ CallOnMySQLPromiseConnection
    \/ DriverEnqueues
    \/ EmitFields
    \/ EmitError
    \/ EmitEnd
    \/ Tick

SpecAdapter == Init /\ [][NextAdapter]_vars

\* The adapter offered undefined, a pool or a connection; the sequences that
\* are enqueued end.
NextAttach ==
    \/ DriverCreatesObject
    \/ CallOnMySQLPromiseConnectionWith
    \/ DriverEnqueues
    \/ EmitEnd

SpecAttach == Init /\ [][NextAttach]_vars

\* A long-running engine: the state after setLatency(80) and LongRunCount calls
\* onResult("SELECT 1 FROM table", 53), each of adjusted duration 0.
InitLongRun ==
    /\ mapQueryToMetrics =
           (unparametrize_sql_query(QTable1) :> [NewMetrics EXCEPT !.successCount = LongRunCount])
    /\ nCurrentlyRunningQueries = 0
    /\ nLatencyMilliseconds = <<80>>
    /\ lastCall = Called("onResult", 0)
    /\ ledger = [EmptyLedger EXCEPT ![QTable1].ok = LongRunCount]
    /\ latencySamples = {80}
    /\ nScenarioStep = -1
    /\ nBudget = MaxCompletions
    /\ connection = Null
    /\ sequences = <<>>
    /\ now = 0
    /\ returned = Null
    /\ chains = <<>>

SpecLongRun == InitLongRun /\ [][Next]_vars

(***************************************************************************)
(* Concurrent async call chains: each awaits its hook calls in turn, and   *)
(* the event loop runs one chain at a time, switching only where the       *)
(* running chain awaits.                                                   *)
(***************************************************************************)
\* What a chain does: hook calls, each awaited.
ChainScripts == {
    << [op |-> "onQuery"], [op |-> "onResult", q |-> QTable1, d |-> 100, rows |-> <<3, 0, 0>>] >>,
    << [op |-> "onQuery"], [op |-> "onError", q |-> QTable2, d |-> 53] >>,
    << [op |-> "onQuery"], [op |-> "onResult", q |-> QAnother1, d |-> 53, rows |-> <<0, 1, 1>>] >> }

\* A hook body that awaits between its reads and its writes.
SuspendsInBodyAlways(op) == TRUE

\* The bodies of onQuery, onResult and onError hold no await: once entered
\* they run to their end.
SuspendsInBody(op) == FALSE

\* The engine after the hook call `call` on engine e.
ApplyCall(e, call) ==
    CASE call.op = "onQuery" -> onQueryOn(e)
      [] call.op = "onResult" ->
             onResultOn(e, call.q, call.d, call.rows[1], call.rows[2], call.rows[3])
      [] call.op = "onError" -> onErrorOn(e, call.q, call.d)

\* The assignments of the body of `call`, computed from the values `read` it
\* loaded, stored into engine e: the gauge, and for a completion hook the
\* fields of the record of its key.
StoreWrites(e, read, call) ==
    LET new == ApplyCall(read, call)
    IN IF call.op = "onQuery"
       THEN [e EXCEPT !.running = new.running]
       ELSE LET strKey == CompletionKey(call.q)
            IN [e EXCEPT !.running = new.running,
                         !.map = (strKey :> new.map[strKey]) @@ @]

\* The call chain c is about to make or is making.
CurrentCall(c) == chains.procs[c].script[chains.procs[c].pc]

\* Chain c may run: no other chain is inside a hook body that has not awaited.
MayRun(c) ==
    \A o \in DOMAIN chains.procs :
        (o # c /\ chains.procs[o].inBody) => SuspendsInBody(CurrentCall(o).op)

\* Chain c calls its next hook: the body starts and loads the fields it uses.
ChainEnters(c) ==
    /\ c \in DOMAIN chains.procs
    /\ ~chains.procs[c].inBody
    /\ chains.procs[c].pc <= Len(chains.procs[c].script)
    /\ MayRun(c)
    /\ chains' = [chains EXCEPT !.procs[c].inBody = TRUE,
                                !.procs[c].read = <<Engine>>,
                                !.entered = Append(@, CurrentCall(c))]
    /\ lastCall' = Called(CurrentCall(c).op, nCurrentlyRunningQueries)
    /\ ledger' = LET call == CurrentCall(c)
                      ms == RecordedDuration(call.d, nLatencyMilliseconds)
                  IN CASE call.op = "onResult" ->
                              [ledger EXCEPT ![call.q].ok = @ + 1, ![call.q].okMs = @ + ms]
                       [] call.op = "onError" ->
                              [ledger EXCEPT ![call.q].err = @ + 1, ![call.q].errMs = @ + ms]
                       [] OTHER -> ledger
    /\ nScenarioStep' = -1
    /\ UNCHANGED <<engineVars, latencySamples, nBudget, driverVars, returned>>

\* The body of the hook chain c is in stores its results and returns; the
\* chain then awaits the returned promise.
ChainLeaves(c) ==
    /\ c \in DOMAIN chains.procs
    /\ chains.procs[c].inBody
    /\ MayRun(c)
    /\ SetEngine(StoreWrites(Engine, chains.procs[c].read[1], CurrentCall(c)))
    /\ chains' = [chains EXCEPT !.procs[c].inBody = FALSE,
                                !.procs[c].read = Null,
                                !.procs[c].pc = @ + 1]
    /\ UNCHANGED <<historyVars, driverVars, returned>>

ChainEntersHook == \E c \in 1..MaxChains : ChainEnters(c)

ChainLeavesHook == \E c \in 1..MaxChains : ChainLeaves(c)

NewChain(script) == [script |-> script, pc |-> 1, inBody |-> FALSE, read |-> Null]

\* A fresh engine and MaxChains call chains that have not started.
InitChains ==
    /\ mapQueryToMetrics = <<>>
    /\ nCurrentlyRunningQueries = 0
    /\ nLatencyMilliseconds = Null
    /\ lastCall = Called("constructor", 0)
    /\ ledger = EmptyLedger
    /\ latencySamples = {}
    /\ nScenarioStep = -1
    /\ nBudget = MaxCompletions
    /\ connection = Null
    /\ sequences = <<>>
    /\ now = 0
    /\ returned = Null
    /\ \E scripts \in [1..MaxChains -> ChainScripts] :
           chains = [procs |-> [c \in 1..MaxChains |-> NewChain(scripts[c])], entered |-> <<>>]

NextChains ==
    \/ ChainEntersHook
    \/ ChainLeavesHook

SpecChains == InitChains /\ [][NextChains]_vars

\* The completion hooks, clear() and an application that keeps the object of
\* one metricsAsObject read.
NextSnapshot ==
    \/ CallOnResult
    \/ CallOnError
    \/ CallClear
    \/ CallMetricsAsObject

SpecSnapshot == Init /\ [][NextSnapshot]_vars

(***************************************************************************)
(* Properties.                                                             *)
(***************************************************************************)
Keys == DOMAIN mapQueryToMetrics

\* A field of the record of strKey in map, 0 when the key is absent.
FieldIn(map, strKey, field) == IF strKey \in DOMAIN map THEN map[strKey][field] ELSE 0

QueriesOfKey(strKey) == {q \in RawQueries : unparametrize_sql_query(q) = strKey}

\* The sum of a ledger field over a set of raw queries.
RECURSIVE LedgerSum(_, _)
LedgerSum(S, field) ==
    IF S = {} THEN 0
    ELSE LET q == CHOOSE x \in S : TRUE
         IN ledger[q][field] + LedgerSum(S \ {q}, field)

SetMin(S) == CHOOSE x \in S : \A y \in S : x <= y

\* C1: runningQueriesCount is never negative, whatever the order of the hook
\* calls, completion hooks without a prior onQuery included.
C1_RunningNeverNegative == runningQueriesCount >= 0

\* A completion hook has been called on a gauge of 0, and the gauge is 0.
C1_Witness ==
    /\ lastCall.op \in {"onResult", "onError"}
    /\ lastCall.running = 0
    /\ runningQueriesCount = 0

\* C2: in every state each stored average is the floor of total / count, and
\* 0 when the count is 0, for successes and for errors.
C2_AverageIsFloor ==
    \A k \in Keys :
        LET r == mapQueryToMetrics[k]
        IN /\ r.successMillisecondsAverage =
                  IF r.successCount > 0
                  THEN r.successMillisecondsTotal \div r.successCount ELSE 0
           /\ r.errorMillisecondsAverage =
                  IF r.errorCount > 0
                  THEN r.errorMillisecondsTotal \div r.errorCount ELSE 0

\* C3: a completion hook called with raw query q adds exactly max(0, d - L)
\* to the total of the canonical key of q (the ledger records that amount
\* for q at the call), L being the latency at the call and 0 when none was
\* set; the amount is never negative.
C3_AddsAdjustedDuration ==
    [][\A q \in RawQueries :
          LET k == unparametrize_sql_query(q)
              okAdded == ledger'[q].okMs - ledger[q].okMs
              errAdded == ledger'[q].errMs - ledger[q].errMs
          IN /\ ledger'[q].ok = ledger[q].ok + 1 =>
                    /\ okAdded >= 0
                    /\ FieldIn(mapQueryToMetrics', k, "successMillisecondsTotal")
                           = FieldIn(mapQueryToMetrics, k, "successMillisecondsTotal") + okAdded
             /\ ledger'[q].err = ledger[q].err + 1 =>
                    /\ errAdded >= 0
                    /\ FieldIn(mapQueryToMetrics', k, "errorMillisecondsTotal")
                           = FieldIn(mapQueryToMetrics, k, "errorMillisecondsTotal") + errAdded
      ]_vars

\* One success was recorded with no latency set (the full duration was added),
\* and one error with a latency above its duration (0 was added).
C3_Witness ==
    /\ nLatencyMilliseconds # Null
    /\ \E k \in Keys : /\ mapQueryToMetrics[k].successCount = 1
                       /\ mapQueryToMetrics[k].successMillisecondsTotal \in Durations
                       /\ mapQueryToMetrics[k].errorCount = 1
                       /\ mapQueryToMetrics[k].errorMillisecondsTotal = 0

\* C4: the latency is unset exactly when setLatency was never called;
\* otherwise it is the minimum of the values passed since the first set or
\* the last reset (a reset call stores its value).
C4_LatencyIsMinimum ==
    /\ (nLatencyMilliseconds = Null) <=> (latencySamples = {})
    /\ nLatencyMilliseconds # Null => nLatencyMilliseconds[1] = SetMin(latencySamples)

\* setLatency(50) and setLatency(80) without reset: the latency is 50.
C4_Witness ==
    /\ latencySamples = {50, 80}
    /\ nLatencyMilliseconds = <<50>>
    /\ lastCall.op = "setLatency"

\* C5: clear() leaves the store empty and leaves runningQueriesCount and the
\* latency as they were.
C5_ClearOnlyStore ==
    [][lastCall'.op = "clear" =>
          /\ DOMAIN mapQueryToMetrics' = {}
          /\ nCurrentlyRunningQueries' = nCurrentlyRunningQueries
          /\ nLatencyMilliseconds' = nLatencyMilliseconds
      ]_vars

\* clear() was called with queries running and a latency set.
C5_Witness ==
    /\ lastCall.op = "clear"
    /\ Keys = {}
    /\ runningQueriesCount = MaxRunning
    /\ nLatencyMilliseconds = <<50>>

\* C6: a record exists for a canonical key exactly when a completion hook was
\* called with that key since the last clear(), and every record counts at
\* least one success or error.
C6_RecordIffObserved ==
    /\ Keys = {unparametrize_sql_query(q) :
                  q \in {x \in RawQueries : ledger[x].ok + ledger[x].err > 0}}
    /\ \A k \in Keys :
           mapQueryToMetrics[k].successCount + mapQueryToMetrics[k].errorCount >= 1

\* One error was recorded into an empty store: the store holds that key alone.
C6_Witness ==
    /\ lastCall.op = "onError"
    /\ nScenarioStep = -1
    /\ nBudget = MaxCompletions - 1
    /\ Keys = {unparametrize_sql_query(QAnother1)}

\* C7: the record of a canonical key holds the counts and totals of all the
\* completion calls whose raw query normalizes to that key, and of no other.
C7_SameKeySameRecord ==
    /\ Keys \subseteq CanonicalKeys
    /\ \A k \in CanonicalKeys :
           /\ FieldIn(mapQueryToMetrics, k, "successCount") = LedgerSum(QueriesOfKey(k), "ok")
           /\ FieldIn(mapQueryToMetrics, k, "errorCount") = LedgerSum(QueriesOfKey(k), "err")
           /\ FieldIn(mapQueryToMetrics, k, "successMillisecondsTotal")
                  = LedgerSum(QueriesOfKey(k), "okMs")
           /\ FieldIn(mapQueryToMetrics, k, "errorMillisecondsTotal")
                  = LedgerSum(QueriesOfKey(k), "errMs")

\* "SELECT 1 FROM table" and "SELECT 2 FROM table" were both completed: one record.
C7_Witness ==
    /\ ledger[QTable1].ok = 1
    /\ ledger[QTable2].err = 1
    /\ Cardinality(Keys) = 1

ScenarioTable ==
    [successCount |-> 1, errorCount |-> 0,
     successMillisecondsTotal |-> 50, errorMillisecondsTotal |-> 0,
     successMillisecondsAverage |-> 50, errorMillisecondsAverage |-> 0,
     fetchedRows |-> 3, affectedRows |-> 0, changedRows |-> 0]

ScenarioAnother ==
    [successCount |-> 0, errorCount |-> 1,
     successMillisecondsTotal |-> 0, errorMillisecondsTotal |-> 3,
     successMillisecondsAverage |-> 0, errorMillisecondsAverage |-> 3,
     fetchedRows |-> 0, affectedRows |-> 0, changedRows |-> 0]

Completed(s) == sequences[s].bErrorEmitted \/ sequences[s].bEndEmitted

\* The Query sequences enqueued on a connection instrumented at that time.
InstrumentedQueries ==
    {s \in DOMAIN sequences : sequences[s].type = "Query" /\ sequences[s].nAttachedAtEnqueue >= 1}

\* C9: for every Query sequence enqueued on an instrumented connection the
\* adapter has called onQuery exactly once, no completion hook before the
\* sequence completes, and exactly one completion hook once it has, whatever
\* the order and number of its 'fields', 'error' and 'end' events.
C9_HooksExactlyOnce ==
    \A s \in InstrumentedQueries :
        /\ sequences[s].nOnQuery = 1
        /\ sequences[s].nOnResult + sequences[s].nOnError = IF Completed(s) THEN 1 ELSE 0

\* The same, for the sequences enqueued while onMySQLPromiseConnection had
\* been called exactly once on the connection.
HooksExactlyOnceWhenAttachedOnce ==
    \A s \in InstrumentedQueries :
        sequences[s].nAttachedAtEnqueue = 1 =>
            /\ sequences[s].nOnQuery = 1
            /\ sequences[s].nOnResult + sequences[s].nOnError = IF Completed(s) THEN 1 ELSE 0

\* A Query on a connection attached once has emitted 'error' and then 'end'.
AttachedOnceErrorThenEnd ==
    \E s \in InstrumentedQueries :
        /\ sequences[s].nAttachedAtEnqueue = 1
        /\ sequences[s].bErrorEmitted
        /\ sequences[s].bEndEmitted

\* C10: attaching the adapter is idempotent: onMySQLPromiseConnection on a
\* connection that is already instrumented changes nothing, so the connection
\* never carries the adapter's "enqueue" listener more than once.
C10_AttachIdempotent ==
    [][(onMySQLPromiseConnection /\ connection[1].nEnqueueListeners >= 1)
           => connection' = connection]_vars

\* C11: onMySQLPromiseConnection(arg) throws, registers no listener and leaves
\* the engine, the connection and its sequences as they were when arg is
\* undefined or an object whose constructor is named neither Connection nor
\* PoolConnection; for an object of these two classes it does not throw and
\* registers its "enqueue" listener.
C11_AttachFailsFast ==
    [][\A arg \in AttachArguments :
          ((arg = connection /\ onMySQLPromiseConnection) \/ onMySQLPromiseConnectionThrows(arg)) =>
              IF arg # Null /\ arg[1].constructorName \in {"Connection", "PoolConnection"}
              THEN /\ lastCall'.op = "onMySQLPromiseConnection"
                   /\ connection'[1].nEnqueueListeners = connection[1].nEnqueueListeners + 1
              ELSE /\ lastCall'.op = "AssertionError"
                   /\ UNCHANGED <<engineVars, connection, sequences>>
      ]_vars

\* The adapter was refused on a pool object, which carries no listener.
C11_Witness ==
    /\ connection # Null
    /\ connection[1].constructorName = "Pool"
    /\ connection[1].nEnqueueListeners = 0
    /\ lastCall.op = "AssertionError"

\* The counters the engine only ever adds to.
AccumulatedFields == {"successCount", "errorCount",
                      "successMillisecondsTotal", "errorMillisecondsTotal",
                      "fetchedRows", "affectedRows", "changedRows"}

\* C12: for every key (an absent key counting as 0) no step other than
\* clear() lowers successCount, errorCount, successMillisecondsTotal,
\* errorMillisecondsTotal, fetchedRows, affectedRows or changedRows, the row
\* arguments being non-negative; and none of them is ever negative.
C12_CountersNeverDecrease ==
    /\ [](\A k \in Keys : \A f \in AccumulatedFields : mapQueryToMetrics[k][f] >= 0)
    /\ [][lastCall'.op # "clear" =>
              \A k \in CanonicalKeys : \A f \in AccumulatedFields :
                  FieldIn(mapQueryToMetrics', k, f) >= FieldIn(mapQueryToMetrics, k, f)
        ]_vars

\* A key was completed twice with rows first and without rows then, the second
\* duration being below the latency: its counters kept what they had.
C12_Witness ==
    /\ lastCall.op = "onError"
    /\ nLatencyMilliseconds = <<80>>
    /\ \E k \in Keys : /\ mapQueryToMetrics[k].successCount = 1
                       /\ mapQueryToMetrics[k].fetchedRows = 3
                       /\ mapQueryToMetrics[k].successMillisecondsTotal = 100
                       /\ mapQueryToMetrics[k].errorCount = 1
                       /\ mapQueryToMetrics[k].errorMillisecondsTotal = 0

\* C13: the object returned by metricsAsObject holds the keys and the field
\* values the store had at that call, and later onResult, onError and clear()
\* calls change neither its keys nor its field values.
C13_SnapshotUnchanged ==
    returned # Null => ReadReturned(returned[1]) = returned[1].atCall

\* The engine after the hook calls of `calls`, made one after another on e.
RECURSIVE RunInOrder(_, _, _)
RunInOrder(e, calls, i) ==
    IF i > Len(calls) THEN e ELSE RunInOrder(ApplyCall(e, calls[i]), calls, i + 1)

FreshEngine == [map |-> <<>>, running |-> 0, latency |-> Null]

ChainsDone == \A c \in DOMAIN chains.procs : chains.procs[c].pc > Len(chains.procs[c].script)

\* C14: a hook body runs without interruption, so whenever no chain is
\* inside a hook body, and in particular once every chain has finished, the
\* engine is in the state that the hook calls made so far produce when run
\* one after another in their order of entry: no update is lost, whatever
\* the interleaving of the chains.
C14_HooksAtomic ==
    /\ \A c, o \in DOMAIN chains.procs :
           (chains.procs[c].inBody /\ chains.procs[o].inBody) => c = o
    /\ (\A c \in DOMAIN chains.procs : ~chains.procs[c].inBody) =>
           Engine = RunInOrder(FreshEngine, chains.entered, 1)

\* Two chains have finished, their calls interleaved: both onQuery calls came
\* first, and both completions went to the record of one key.
C14_Witness ==
    /\ ChainsDone
    /\ Len(chains.entered) = 4
    /\ chains.entered[1].op = "onQuery"
    /\ chains.entered[2].op = "onQuery"
    /\ Cardinality(Keys) = 1
    /\ \E k \in Keys : mapQueryToMetrics[k].successCount = 1 /\ mapQueryToMetrics[k].errorCount = 1
    /\ runningQueriesCount = 0

\* C15: a Query sequence that has emitted 'error', and has not ended
\* otherwise, has been reported through onError and not through onResult:
\* onResult is for the sequences that end without an error.
C15_ErrorReportedByOnError ==
    \A s \in InstrumentedQueries :
        (sequences[s].bErrorEmitted /\ ~sequences[s].bEndEmitted) =>
            /\ sequences[s].nOnError >= 1
            /\ sequences[s].nOnResult = 0
            /\ FieldIn(mapQueryToMetrics, CompletionKey(sequences[s].sql), "successCount") = 0

\* The completions counted in the record of strKey in map.
Completions(map, strKey) == FieldIn(map, strKey, "successCount") + FieldIn(map, strKey, "errorCount")

\* C16: an onResult or onError call lowers runningQueriesCount by exactly 1
\* when it is positive and leaves it at 0 when it is 0; in both cases the
\* call is counted in the record of its key.
C16_CompletionLowersGauge ==
    [][lastCall'.op \in {"onResult", "onError"} =>
          /\ nCurrentlyRunningQueries' =
                 IF nCurrentlyRunningQueries > 0 THEN nCurrentlyRunningQueries - 1 ELSE 0
          /\ \E q \in RawQueries :
                 /\ ledger'[q].ok + ledger'[q].err = ledger[q].ok + ledger[q].err + 1
                 /\ Completions(mapQueryToMetrics', unparametrize_sql_query(q))
                        = Completions(mapQueryToMetrics, unparametrize_sql_query(q)) + 1
      ]_vars

\* onResult was called on a gauge of 0 with an empty store: the gauge is 0
\* and the store holds the record of that call.
C16_Witness ==
    /\ lastCall = Called("onResult", 0)
    /\ runningQueriesCount = 0
    /\ nBudget = MaxCompletions - 1
    /\ \E k \in Keys : mapQueryToMetrics[k].successCount = 1

\* C17: onQuery() raises runningQueriesCount by exactly 1 and changes
\* neither the store nor the latency; only onResult and onError lower the
\* gauge, and clear() and setLatency leave it as it is: queries announced
\* and not completed stay counted.
C17_OnlyCompletionsLowerGauge ==
    [][/\ lastCall'.op = "onQuery" =>
              /\ nCurrentlyRunningQueries' = nCurrentlyRunningQueries + 1
              /\ mapQueryToMetrics' = mapQueryToMetrics
              /\ nLatencyMilliseconds' = nLatencyMilliseconds
       /\ lastCall'.op \notin {"onResult", "onError"} =>
              nCurrentlyRunningQueries' >= nCurrentlyRunningQueries
       /\ lastCall'.op \in {"clear", "setLatency"} =>
              nCurrentlyRunningQueries' = nCurrentlyRunningQueries
      ]_vars

\* clear() was called on a gauge of MaxRunning, no latency ever set, and
\* the gauge is still MaxRunning.
C17_Witness ==
    /\ lastCall = Called("clear", MaxRunning)
    /\ runningQueriesCount = MaxRunning
    /\ nLatencyMilliseconds = Null

SuccessFields == {"successCount", "successMillisecondsTotal", "successMillisecondsAverage",
                  "fetchedRows", "affectedRows", "changedRows"}

ErrorFields == {"errorCount", "errorMillisecondsTotal", "errorMillisecondsAverage"}

\* Between this state and the next, the records of the keys other than
\* strKey are the same, and so is the latency.
OtherRecordsKept(strKey) ==
    /\ nLatencyMilliseconds' = nLatencyMilliseconds
    /\ \A k \in CanonicalKeys \ {strKey} :
           /\ (k \in DOMAIN mapQueryToMetrics') <=> (k \in DOMAIN mapQueryToMetrics)
           /\ k \in DOMAIN mapQueryToMetrics => mapQueryToMetrics'[k] = mapQueryToMetrics[k]

\* C18: a completion hook changes the record of its own normalized key
\* alone. onError leaves the success fields and the row fields of that
\* record as they were; onResult(q, d, f, a, c) adds 1 to successCount and
\* f, a, c to fetchedRows, affectedRows, changedRows and leaves the error
\* fields as they were; the records of the other keys and the latency are
\* unchanged by both.
C18_CompletionFrame ==
    [][\A q \in RawQueries :
          LET k == unparametrize_sql_query(q)
          IN /\ (lastCall'.op = "onError" /\ ledger'[q].err = ledger[q].err + 1) =>
                    /\ \A f \in SuccessFields :
                           FieldIn(mapQueryToMetrics', k, f) = FieldIn(mapQueryToMetrics, k, f)
                    /\ OtherRecordsKept(k)
             /\ (lastCall'.op = "onResult" /\ ledger'[q].ok = ledger[q].ok + 1) =>
                    /\ FieldIn(mapQueryToMetrics', k, "successCount")
                           = FieldIn(mapQueryToMetrics, k, "successCount") + 1
                    /\ \A f \in ErrorFields :
                           FieldIn(mapQueryToMetrics', k, f) = FieldIn(mapQueryToMetrics, k, f)
                    /\ \A d \in Durations, rows \in RowArgs :
                           onResult(q, d, rows) =>
                               /\ FieldIn(mapQueryToMetrics', k, "fetchedRows")
                                      = FieldIn(mapQueryToMetrics, k, "fetchedRows") + rows[1]
                               /\ FieldIn(mapQueryToMetrics', k, "affectedRows")
                                      = FieldIn(mapQueryToMetrics, k, "affectedRows") + rows[2]
                               /\ FieldIn(mapQueryToMetrics', k, "changedRows")
                                      = FieldIn(mapQueryToMetrics, k, "changedRows") + rows[3]
                    /\ OtherRecordsKept(k)
      ]_vars

\* An error was recorded on one key while the store held the record of
\* another key, with one success and its rows: that record is as it was.
C18_Witness ==
    /\ lastCall.op = "onError"
    /\ \E k1, k2 \in Keys :
           /\ k1 # k2
           /\ mapQueryToMetrics[k1] = [NewMetrics EXCEPT !.successCount = 1,
                                                         !.successMillisecondsTotal = 100,
                                                         !.successMillisecondsAverage = 100,
                                                         !.affectedRows = 1,
                                                         !.changedRows = 1]
           /\ mapQueryToMetrics[k2].errorCount = 1
           /\ mapQueryToMetrics[k2].successCount = 0

\* The record the ledger accounts for under strKey: <<>> when no completion
\* hook was called with that key since the last clear().
LedgerRecord(strKey) ==
    LET S == QueriesOfKey(strKey)
    IN IF LedgerSum(S, "ok") + LedgerSum(S, "err") = 0 THEN <<>>
       ELSE <<[successCount |-> LedgerSum(S, "ok"), errorCount |-> LedgerSum(S, "err"),
               successMillisecondsTotal |-> LedgerSum(S, "okMs"),
               errorMillisecondsTotal |-> LedgerSum(S, "errMs")]>>

\* The counts and totals the store holds under strKey: <<>> when it holds no record.
StoredRecord(strKey) ==
    IF strKey \notin Keys THEN <<>>
    ELSE <<[f \in {"successCount", "errorCount",
                   "successMillisecondsTotal", "errorMillisecondsTotal"} |->
               mapQueryToMetrics[strKey][f]]>>

\* C19: the store is the ledger of the completion calls since the last
\* clear(): for every key, successCount and errorCount are the numbers of
\* onResult and onError calls with that key, and the two totals are the sums
\* of their durations, each lowered by the latency in effect at its own call
\* and floored at 0; a key without calls has no record.
C19_StoreIsLedger == \A k \in CanonicalKeys : StoredRecord(k) = LedgerRecord(k)

\* One key was completed twice with a duration of 100, before and after
\* setLatency(50): its total is 100 + 50.
C19_Witness ==
    /\ ledger[QTable1].ok = 2
    /\ nLatencyMilliseconds = <<50>>
    /\ mapQueryToMetrics[unparametrize_sql_query(QTable1)].successMillisecondsTotal = 150

\* The hook calls of sequences 1..i that announced a dispatch, less those
\* that completed one.
RECURSIVE InFlight(_)
InFlight(i) ==
    IF i = 0 THEN 0
    ELSE sequences[i].nOnQuery - sequences[i].nOnResult - sequences[i].nOnError + InFlight(i - 1)

InstrumentedOthers ==
    {s \in DOMAIN sequences : sequences[s].type # "Query" /\ sequences[s].nAttachedAtEnqueue >= 1}

\* C21: a sequence that is not a Query, enqueued on an instrumented
\* connection, causes no hook call: no listener of the adapter is on it, and
\* its enqueue and each of its events leave runningQueriesCount, the store
\* and the latency as they were.
C21_OnlyQueriesReported ==
    /\ [](\A s \in InstrumentedOthers :
              /\ sequences[s].closures = <<>>
              /\ sequences[s].nOnQuery + sequences[s].nOnResult + sequences[s].nOnError = 0)
    /\ [][\A s \in DOMAIN sequences' :
              (/\ sequences'[s].type # "Query"
               /\ sequences'[s].nAttachedAtEnqueue >= 1
               /\ (s \notin DOMAIN sequences \/ sequences'[s] # sequences[s]))
                  => UNCHANGED <<engineVars, ledger>>
        ]_vars

\* A Ping enqueued on an instrumented connection has emitted 'error' and
\* 'end', and no hook was called.
C21_Witness ==
    /\ \E s \in InstrumentedOthers : sequences[s].bErrorEmitted /\ sequences[s].bEndEmitted
    /\ lastCall.op = "onMySQLPromiseConnection"
    /\ runningQueriesCount = 0
    /\ Keys = {}

\* C22: setLatency changes the latency alone: runningQueriesCount and every
\* record of the store, its counts, totals, averages and row sums, are as
\* they were, so a duration already recorded keeps the adjustment it was
\* recorded with.
C22_SetLatencyOnlyLatency ==
    [][lastCall'.op = "setLatency" =>
          /\ nCurrentlyRunningQueries' = nCurrentlyRunningQueries
          /\ DOMAIN mapQueryToMetrics' = DOMAIN mapQueryToMetrics
          /\ \A k \in Keys : mapQueryToMetrics'[k] = mapQueryToMetrics[k]
          /\ \A k \in CanonicalKeys :
                 /\ FieldIn(mapQueryToMetrics', k, "successMillisecondsTotal")
                        = LedgerSum(QueriesOfKey(k), "okMs")
                 /\ FieldIn(mapQueryToMetrics', k, "errorMillisecondsTotal")
                        = LedgerSum(QueriesOfKey(k), "errMs")
      ]_vars

\* A duration of 100 was recorded under a latency of 80, as 20; setLatency
\* then lowered the latency to 50, and the record still holds 20.
C22_Witness ==
    /\ lastCall.op = "setLatency"
    /\ nLatencyMilliseconds = <<50>>
    /\ \E k \in Keys : /\ mapQueryToMetrics[k].successCount = 1
                       /\ mapQueryToMetrics[k].successMillisecondsTotal = 20
                       /\ mapQueryToMetrics[k].successMillisecondsAverage = 20

====
